---- MODULE Spec2Model ----
(***************************************************************************)
(* GPX splitter (src/GPX-Splitter/split_gpx.py).                           *)
(*                                                                         *)
(* Text is a sequence of one-character strings; None and the empty string  *)
(* are both <<>> (the code only ever tests them for truthiness).           *)
(* Floats are held exactly, in tenths (10.0 is 100): the attribute strings *)
(* of the model carry at most one fractional digit.                        *)
(* An XML element is a record [tag, attrib, text, kids]; attrib is a       *)
(* sequence of <<key, value>> pairs and kids the sequence of children.     *)
(* Namespaced tags are written "{gpx}trk", "{gpxt}DisplayColor".           *)
(***************************************************************************)
EXTENDS Integers, Sequences, FiniteSets, TLC

VARIABLES
    \* generate_safe_colors
    n, colors, hue_deg, accepted, gpc, calls, first,
    \* split_gpx
    input, target_folder, root, idx, pc, writes, stdout,
    \* the annotation steps applied to one track
    a_src, a_idx, a_track, a_count

gvars == <<n, colors, hue_deg, accepted, gpc, calls, first>>
svars == <<input, target_folder, root, idx, pc, writes, stdout>>
avars == <<a_src, a_idx, a_track, a_count>>
vars == <<gvars, svars, avars>>

\* ------------------------------------------------------------------ bounds
MaxN == 12
MaxCalls == 2
MaxTracks == 9
MaxWpts == 2
MaxApply == 3

\* ------------------------------------------------------------ small helpers
None == <<>>

Truthy(s) == s # <<>>

Digit == <<"0", "1", "2", "3", "4", "5", "6", "7", "8", "9">>

HexDigit == <<"0", "1", "2", "3", "4", "5", "6", "7", "8", "9",
              "A", "B", "C", "D", "E", "F">>

RECURSIVE SeqMin(_)
SeqMin(s) ==
    IF Len(s) = 1 THEN s[1]
    ELSE LET m == SeqMin(Tail(s)) IN IF s[1] <= m THEN s[1] ELSE m

RECURSIVE SeqMax(_)
SeqMax(s) ==
    IF Len(s) = 1 THEN s[1]
    ELSE LET m == SeqMax(Tail(s)) IN IF s[1] >= m THEN s[1] ELSE m

\* ------------------------------------------------- generate_safe_colors
\* hue_deg is held exactly as the numerator h of the fraction h / k degrees,
\* k being the argument n of the call; step = 360.0 / n is then 360.

\* the three skipped hue bands
bannedNoGreen(h, k) ==
    \/ (50 * k <= h /\ h <= 70 * k)
    \/ (180 * k <= h /\ h <= 210 * k)

banned(h, k) ==
    \/ (50 * k <= h /\ h <= 70 * k)
    \/ (100 * k <= h /\ h <= 140 * k)
    \/ (180 * k <= h /\ h <= 210 * k)

\* int(x * 255) for x = 0.85 * num / den
Channel(num, den) == (255 * 85 * num) \div (100 * den)

\* colorsys.hsv_to_rgb(hue_deg / 360.0, 1.0, 0.85), scaled by 255 and truncated
hsv_to_rgb(h, k) ==
    LET i == (h \div (60 * k)) % 6
        r == h % (60 * k)
        v == Channel(1, 1)
        p == 0
        q == Channel(60 * k - r, 60 * k)
        t == Channel(r, 60 * k)
    IN  CASE i = 0 -> <<v, t, p>>
          [] i = 1 -> <<q, v, p>>
          [] i = 2 -> <<p, v, t>>
          [] i = 3 -> <<p, q, v>>
          [] i = 4 -> <<t, p, v>>
          [] i = 5 -> <<v, p, q>>

\* '{:02X}'.format(x)
Hex2(x) == <<HexDigit[(x \div 16) + 1], HexDigit[(x % 16) + 1]>>

\* '#{:02X}{:02X}{:02X}'.format(r, g, b)
hex_color(rgb) == <<"#">> \o Hex2(rgb[1]) \o Hex2(rgb[2]) \o Hex2(rgb[3])

\* hue_deg += step; if hue_deg >= 360.0: hue_deg -= 360.0
NextHue(h, k) == IF h + 360 >= 360 * k THEN h + 360 - 360 * k ELSE h + 360

\* one iteration of the while loop on the pair <<colors, hue_deg>>
LoopBody(cs, h, k) ==
    <<IF ~banned(h, k) THEN Append(cs, hex_color(hsv_to_rgb(h, k))) ELSE cs,
      NextHue(h, k)>>

RECURSIVE GenLoop(_, _, _)
GenLoop(cs, h, k) ==
    IF Len(cs) < k
    THEN LET s == LoopBody(cs, h, k) IN GenLoop(s[1], s[2], k)
    ELSE cs

generate_safe_colors(k) == GenLoop(<<>>, 0, k)

COLORS == generate_safe_colors(8)

\* ------------------------------------------------------------- str helpers
RECURSIVE LStrip(_, _)
LStrip(s, c) == IF s # <<>> /\ Head(s) = c THEN LStrip(Tail(s), c) ELSE s

RECURSIVE RStrip(_, _)
RStrip(s, c) ==
    IF s # <<>> /\ s[Len(s)] = c THEN RStrip(SubSeq(s, 1, Len(s) - 1), c) ELSE s

\* str.strip(c); str.strip() with no argument strips blanks
Strip(s, c) == RStrip(LStrip(s, c), c)

\* str.replace(a, b) for single characters
Replace(s, a, b) == [i \in 1..Len(s) |-> IF s[i] = a THEN b ELSE s[i]]

IsDigit(c) == \E i \in 1..10 : Digit[i] = c

DigitVal(c) == (CHOOSE i \in 1..10 : Digit[i] = c) - 1

RECURSIVE DigitsVal(_)
DigitsVal(s) ==
    IF s = <<>> THEN 0 ELSE 10 * DigitsVal(SubSeq(s, 1, Len(s) - 1)) + DigitVal(s[Len(s)])

RECURSIVE NatStr(_)
NatStr(k) == IF k < 10 THEN <<Digit[k + 1]>> ELSE NatStr(k \div 10) \o <<Digit[(k % 10) + 1]>>

\* float(s): the strings Python accepts among those built from digits, a sign
\* and a point with at most one digit behind it; anything else is ValueError
Unsigned(s) == IF s # <<>> /\ s[1] \in {"-", "+"} THEN Tail(s) ELSE s

DotAt(u) == IF \E i \in 1..Len(u) : u[i] = "."
            THEN CHOOSE i \in 1..Len(u) : u[i] = "." ELSE Len(u) + 1

IsFloat(s) ==
    LET u == Unsigned(s)
        d == DotAt(u)
    IN  /\ \A i \in 1..Len(u) : IsDigit(u[i]) \/ i = d
        /\ \E i \in 1..Len(u) : IsDigit(u[i])
        /\ Len(u) - d <= 1

\* the value of float(s), in tenths
FloatOf(s) ==
    LET u == Unsigned(s)
        d == DotAt(u)
        whole == DigitsVal(SubSeq(u, 1, d - 1))
        frac == IF d < Len(u) THEN DigitVal(u[d + 1]) ELSE 0
        mag == 10 * whole + frac
    IN  IF s[1] = "-" THEN 0 - mag ELSE mag

\* f"{x}" for a float x given in tenths: repr keeps the point, "10" -> "10.0"
FormatFloat(t) ==
    LET a == IF t < 0 THEN 0 - t ELSE t
    IN  (IF t < 0 THEN <<"-">> ELSE <<>>)
        \o NatStr(a \div 10) \o <<".">> \o <<Digit[(a % 10) + 1]>>

\* --------------------------------------------------------- sanitize_filename
Upper == {"A", "B", "C", "D", "E", "F", "G", "H", "I", "J", "K", "L", "M",
          "N", "O", "P", "Q", "R", "S", "T", "U", "V", "W", "X", "Y", "Z"}

Lower == {"a", "b", "c", "d", "e", "f", "g", "h", "i", "j", "k", "l", "m",
          "n", "o", "p", "q", "r", "s", "t", "u", "v", "w", "x", "y", "z"}

\* the class [A-Za-z0-9 _-]
SafeChar == Upper \cup Lower \cup {Digit[i] : i \in 1..10} \cup {" ", "_", "-"}

deelroute == <<"d", "e", "e", "l", "r", "o", "u", "t", "e">>

sanitize_filename(name) ==
    IF ~Truthy(name) THEN deelroute
    ELSE LET subbed == [i \in 1..Len(name) |->
                            IF name[i] \in SafeChar THEN name[i] ELSE "_"]
             sanitized == Strip(Replace(subbed, " ", "_"), "_")
         IN  IF Truthy(sanitized) THEN sanitized ELSE deelroute

\* ------------------------------------------------------------ element trees
Element(tag, attrib, text, kids) ==
    [tag |-> tag, attrib |-> attrib, text |-> text, kids |-> kids]

\* elem.get(key)
Get(e, key) ==
    IF \E i \in 1..Len(e.attrib) : e.attrib[i][1] = key
    THEN e.attrib[CHOOSE i \in 1..Len(e.attrib) :
                    /\ e.attrib[i][1] = key
                    /\ \A j \in 1..(i - 1) : e.attrib[j][1] # key][2]
    ELSE None

\* position of the child elem.find(tag) returns, 0 for None
FindPos(e, tag) ==
    IF \E i \in 1..Len(e.kids) : e.kids[i].tag = tag
    THEN CHOOSE i \in 1..Len(e.kids) :
            /\ e.kids[i].tag = tag
            /\ \A j \in 1..(i - 1) : e.kids[j].tag # tag
    ELSE 0

\* positions of the children elem.findall(tag) returns, in document order
RECURSIVE FindAllPosFrom(_, _, _)
FindAllPosFrom(e, tag, i) ==
    IF i > Len(e.kids) THEN <<>>
    ELSE (IF e.kids[i].tag = tag THEN <<i>> ELSE <<>>) \o FindAllPosFrom(e, tag, i + 1)

FindAllPos(e, tag) == FindAllPosFrom(e, tag, 1)

\* elem.findall(tag): direct children only
FindAll(e, tag) ==
    LET ps == FindAllPos(e, tag) IN [i \in 1..Len(ps) |-> e.kids[ps[i]]]

\* the descendants of e in document order (e itself excluded)
RECURSIVE Descendants(_)
RECURSIVE DescendantsFrom(_, _)
DescendantsFrom(e, i) ==
    IF i > Len(e.kids) THEN <<>>
    ELSE <<e.kids[i]>> \o Descendants(e.kids[i]) \o DescendantsFrom(e, i + 1)

Descendants(e) == DescendantsFrom(e, 1)

\* elem.findall('.//tag')
FindAllDesc(e, tag) == SelectSeq(Descendants(e), LAMBDA d : d.tag = tag)

\* elem.find('.//tag') is not None
HasDesc(e, tag) == FindAllDesc(e, tag) # <<>>

\* elem.find('.//tag').text = txt : the first match in document order
RECURSIVE SetFirstDescText(_, _, _)
SetFirstDescText(e, tag, txt) ==
    LET hit(i) == e.kids[i].tag = tag \/ HasDesc(e.kids[i], tag)
        i == CHOOSE i \in 1..Len(e.kids) : hit(i) /\ \A j \in 1..(i - 1) : ~hit(j)
    IN  [e EXCEPT !.kids[i] =
            IF @.tag = tag THEN [@ EXCEPT !.text = txt]
            ELSE SetFirstDescText(@, tag, txt)]

\* --------------------------------------------------------------- constants
GPX_NS ==
    <<"h", "t", "t", "p", ":", "/", "/", "w", "w", "w", ".", "t", "o", "p",
      "o", "g", "r", "a", "f", "i", "x", ".", "c", "o", "m", "/", "G", "P",
      "X", "/", "1", "/", "1">>

GARMIN_GPXX_NS ==
    <<"h", "t", "t", "p", ":", "/", "/", "w", "w", "w", ".", "g", "a", "r",
      "m", "i", "n", ".", "c", "o", "m", "/", "x", "m", "l", "s", "c", "h",
      "e", "m", "a", "s", "/", "G", "p", "x", "E", "x", "t", "e", "n", "s",
      "i", "o", "n", "s", "/", "v", "3">>

\* tags as ElementTree resolves them
TRK == "{gpx}trk"
WPT == "{gpx}wpt"
NAME == "{gpx}name"
TRKPT == "{gpx}trkpt"
GPX_EXTENSIONS == "{gpx}extensions"
TRACK_EXTENSION == "{gpxt}TrackExtension"
DISPLAY_COLOR == "{gpxt}DisplayColor"

\* ----------------------------------------------------- the annotation steps
\* find or create <extensions>, find or create <display_color>, set its text
add_standard_display_color(track_elem, hex) ==
    LET p == FindPos(track_elem, "extensions")
        t1 == IF p = 0
              THEN [track_elem EXCEPT
                      !.kids = Append(@, Element("extensions", <<>>, None, <<>>))]
              ELSE track_elem
        p1 == IF p = 0 THEN Len(t1.kids) ELSE p
        std_ext == t1.kids[p1]
        q == FindPos(std_ext, "display_color")
        e1 == IF q = 0
              THEN [std_ext EXCEPT
                      !.kids = Append(@, Element("display_color", <<>>, None, <<>>))]
              ELSE std_ext
        q1 == IF q = 0 THEN Len(e1.kids) ELSE q
    IN  [t1 EXCEPT !.kids[p1] = [e1 EXCEPT !.kids[q1].text = hex]]

\* the block appended when the track has no gpxt:DisplayColor
GpxtBlock(hex) ==
    Element(GPX_EXTENSIONS, <<>>, None,
        <<Element(TRACK_EXTENSION, <<>>, None,
            <<Element(DISPLAY_COLOR, <<>>, hex, <<>>)>>)>>)

add_or_update_gpxt_display_colorAlwaysAppend(track_elem, hex) ==
    [track_elem EXCEPT !.kids = Append(@, GpxtBlock(hex))]

add_or_update_gpxt_display_color(track_elem, hex) ==
    IF HasDesc(track_elem, DISPLAY_COLOR)
    THEN SetFirstDescText(track_elem, DISPLAY_COLOR, hex)
    ELSE [track_elem EXCEPT !.kids = Append(@, GpxtBlock(hex))]

\* the for loop of calculate_bounds on <<lats, lons>>: float(lat) is appended
\* before float(lon) is attempted, and a ValueError from either is swallowed
RECURSIVE ScanPoints(_, _, _)
ScanPoints(trkpts, lats, lons) ==
    IF trkpts = <<>> THEN <<lats, lons>>
    ELSE LET pt == Head(trkpts)
             lat == Get(pt, "lat")
             lon == Get(pt, "lon")
         IN  IF Truthy(lat) /\ Truthy(lon)
             THEN IF ~IsFloat(lat) THEN ScanPoints(Tail(trkpts), lats, lons)
                  ELSE IF ~IsFloat(lon)
                       THEN ScanPoints(Tail(trkpts), Append(lats, FloatOf(lat)), lons)
                       ELSE ScanPoints(Tail(trkpts), Append(lats, FloatOf(lat)),
                                       Append(lons, FloatOf(lon)))
             ELSE ScanPoints(Tail(trkpts), lats, lons)

\* <<minlat, minlon, maxlat, maxlon>>, or None
calculate_bounds(track_elem) ==
    LET ll == ScanPoints(FindAllDesc(track_elem, TRKPT), <<>>, <<>>)
        lats == ll[1]
        lons == ll[2]
    IN  IF Truthy(lats) /\ Truthy(lons)
        THEN <<SeqMin(lats), SeqMin(lons), SeqMax(lats), SeqMax(lons)>>
        ELSE None

BoundsElem(bounds) ==
    Element("bounds",
        <<<<"minlat", FormatFloat(bounds[1])>>, <<"minlon", FormatFloat(bounds[2])>>,
          <<"maxlat", FormatFloat(bounds[3])>>, <<"maxlon", FormatFloat(bounds[4])>>>>,
        None, <<>>)

add_boundsAppend(track_elem, bounds) ==
    IF Truthy(bounds)
    THEN [track_elem EXCEPT !.kids = Append(@, BoundsElem(bounds))]
    ELSE track_elem

\* track_elem.insert(0, bounds_elem)
add_bounds(track_elem, bounds) ==
    IF Truthy(bounds)
    THEN [track_elem EXCEPT !.kids = <<BoundsElem(bounds)>> \o @]
    ELSE track_elem

chosen_color_hexOffByOne(i) == COLORS[(i % Len(COLORS)) + 1]

\* COLORS[(idx - 1) % len(COLORS)], idx counted from 1
chosen_color_hex(i) == COLORS[((i - 1) % Len(COLORS)) + 1]

\* the colour and bounds statements of the loop body, on the track itself
annotate(track, i) ==
    LET c == chosen_color_hex(i)
        t1 == add_standard_display_color(track, c)
        t2 == add_or_update_gpxt_display_color(t1, c)
    IN  add_bounds(t2, calculate_bounds(t2))

\* track_name and safe_name of the loop body
track_name(track, i) ==
    LET p == FindPos(track, NAME)
    IN  IF p # 0 /\ Truthy(track.kids[p].text)
        THEN Strip(track.kids[p].text, " ")
        ELSE deelroute \o <<"_">> \o NatStr(i)

safe_name(track, i) == sanitize_filename(track_name(track, i))

\* ET.Element('gpx', attrib={...}) with the given children appended
new_gpx_root(kids) ==
    Element("gpx",
        <<<<"version", <<"1", ".", "1">>>>,
          <<"creator", <<"G", "P", "X", " ", "S", "p", "l", "i", "t", "t", "e", "r",
                         " ", "S", "c", "r", "i", "p", "t">>>>,
          <<"xmlns", GPX_NS>>, <<"xmlns:gpx", GPX_NS>>,
          <<"xmlns:gpxt", GARMIN_GPXX_NS>>>>,
        None, kids)

DotGpx == <<".", "g", "p", "x">>

AllWaypointsGpx ==
    <<"A", "l", "l", "-", "W", "a", "y", "p", "o", "i", "n", "t", "s">> \o DotGpx

\* ------------------------------------------------------------ input space
Trkpt(lat, lon) == Element(TRKPT, <<<<"lat", lat>>, <<"lon", lon>>>>, None, <<>>)

TrkptNoLon(lat) == Element(TRKPT, <<<<"lat", lat>>>>, None, <<>>)

Trkseg(pts) == Element("{gpx}trkseg", <<>>, None, pts)

Name(text) == Element(NAME, <<>>, text, <<>>)

Trk(kids) == Element(TRK, <<>>, None, kids)

Wpt(lat, lon, text) ==
    Element(WPT, <<<<"lat", lat>>, <<"lon", lon>>>>, None, <<Name(text)>>)

\* "A 1": two valid points
TrackA ==
    Trk(<<Name(<<"A", " ", "1">>),
          Trkseg(<<Trkpt(<<"1", "0">>, <<"2", "0">>), Trkpt(<<"1", "2">>, <<"1", "8">>)>>)>>)

\* unnamed: a point with numeric lat and non-numeric lon, then a valid point
TrackUnnamed ==
    Trk(<<Trkseg(<<Trkpt(<<"9", "9">>, <<"a", "b", "c">>), Trkpt(<<"7", ".", "5">>, <<"-", "3">>)>>)>>)

\* "A_1": Garmin colour already present, only point has a non-numeric lat
TrackGarmin ==
    Trk(<<Name(<<"A", "_", "1">>),
          Element(GPX_EXTENSIONS, <<>>, None,
              <<Element(TRACK_EXTENSION, <<>>, None,
                  <<Element(DISPLAY_COLOR, <<>>, <<"R", "e", "d">>, <<>>)>>)>>),
          Trkseg(<<Trkpt(<<"z", "z">>, <<"5">>)>>)>>)

\* "All-Waypoints": generic colour already present, one valid point
TrackGeneric ==
    Trk(<<Name(<<"A", "l", "l", "-", "W", "a", "y", "p", "o", "i", "n", "t", "s">>),
          Element("extensions", <<>>, None,
              <<Element("display_color", <<>>, <<"#", "A", "B", "C", "D", "E", "F">>, <<>>)>>),
          Trkseg(<<Trkpt(<<"1">>, <<"2">>)>>)>>)

\* "#": no points; a namespaced extensions block without colour, holding a wpt
TrackHash ==
    Trk(<<Name(<<"#">>),
          Element(GPX_EXTENSIONS, <<>>, None,
              <<Wpt(<<"8">>, <<"9">>, <<"Q">>)>>)>>)

\* blank name; a point without lon, a valid point, a point with empty lon
TrackBlank ==
    Trk(<<Name(<<" ", " ">>),
          Trkseg(<<TrkptNoLon(<<"4">>), Trkpt(<<"-", "5", ".", "5">>, <<"5">>)>>),
          Trkseg(<<Trkpt(<<"3">>, <<>>)>>)>>)

TrackPool == <<TrackA, TrackUnnamed, TrackGarmin, TrackGeneric, TrackHash, TrackBlank>>

WptPool == <<Wpt(<<"5", "2", ".", "1">>, <<"6", ".", "5">>, <<"P">>), Wpt(<<"5", "3">>, <<"7">>, <<"R">>)>>

\* track lists: every list of at most two pool tracks, and the runs of three
\* to MaxTracks consecutive pool tracks (cyclically) from every start
TrackLists ==
    {<<>>}
    \cup {<<TrackPool[a]>> : a \in 1..Len(TrackPool)}
    \cup {<<TrackPool[a], TrackPool[b]>> : a \in 1..Len(TrackPool), b \in 1..Len(TrackPool)}
    \cup {[i \in 1..len |-> TrackPool[((i + off - 1) % Len(TrackPool)) + 1]] :
            len \in 3..MaxTracks, off \in 0..(Len(TrackPool) - 1)}

WptLists == {[i \in 1..w |-> WptPool[((i - 1) % Len(WptPool)) + 1]] : w \in 0..MaxWpts}

\* a GPX document: the waypoints, then the tracks, under the root element
Docs == {Element("{gpx}gpx", <<>>, None, ws \o ts) : ws \in WptLists, ts \in TrackLists}

\* the file at input_gpx_path
Inputs == [kind : {"ok", "malformed", "unreadable"}, doc : Docs]

NoTree == Element("", <<>>, None, <<>>)

\* ---------------------------------------------------------------- split_gpx
parseLenient(inp) == [raised |-> "none", tree |-> inp.doc]

\* ET.parse(input_gpx_path) followed by tree.getroot()
parse(inp) ==
    CASE inp.kind = "ok" -> [raised |-> "none", tree |-> inp.doc]
      [] inp.kind = "malformed" -> [raised |-> "ParseError", tree |-> NoTree]
      [] inp.kind = "unreadable" -> [raised |-> "Exception", tree |-> NoTree]

\* positions in root of the elements of tracks = root.findall('gpx:trk')
tracks == FindAllPos(root, TRK)

\* wpts = root.findall('gpx:wpt')
wpts == FindAll(root, WPT)

TreeAfterAnnotateOnCopy(r, pos, annotated) == r

\* the loop body works on the element of the parsed tree itself
TreeAfterAnnotate(r, pos, annotated) == [r EXCEPT !.kids[pos] = annotated]

Msg(m, k) == [msg |-> m, count |-> k]

\* os.makedirs, ET.parse succeeds
Parse ==
    /\ pc = "start"
    /\ parse(input).raised = "none"
    /\ target_folder' = "created"
    /\ root' = parse(input).tree
    /\ pc' = "parsed"
    /\ UNCHANGED <<input, idx, writes, stdout>>

\* os.makedirs, except ET.ParseError: print and return
ParseFailed ==
    /\ pc = "start"
    /\ parse(input).raised = "ParseError"
    /\ target_folder' = "created"
    /\ stdout' = Append(stdout, Msg("Fout: Het GPX-bestand kon niet worden geparsed", 0))
    /\ pc' = "failed"
    /\ UNCHANGED <<input, root, idx, writes>>

\* os.makedirs, except Exception: print and return
ReadFailed ==
    /\ pc = "start"
    /\ parse(input).raised = "Exception"
    /\ target_folder' = "created"
    /\ stdout' = Append(stdout, Msg("Onverwachte fout bij het lezen van het GPX-bestand", 0))
    /\ pc' = "failed"
    /\ UNCHANGED <<input, root, idx, writes>>

\* if not tracks: print
NoTracks ==
    /\ pc = "parsed"
    /\ tracks = <<>>
    /\ stdout' = Append(stdout, Msg("Geen <trk> deelroutes gevonden in het GPX-bestand.", 0))
    /\ pc' = "waypoints"
    /\ UNCHANGED <<input, target_folder, root, idx, writes>>

\* one iteration of for idx, track in enumerate(tracks, start=1)
ProcessTrack ==
    /\ pc = "parsed"
    /\ idx < Len(tracks)
    /\ LET i == idx + 1
           pos == tracks[i]
           track == root.kids[pos]
           output_path == safe_name(track, i) \o DotGpx
           annotated == annotate(track, i)
       IN  /\ root' = TreeAfterAnnotate(root, pos, annotated)
           /\ writes' = Append(writes,
                   [path |-> output_path, doc |-> new_gpx_root(<<annotated>>)])
           /\ idx' = i
    /\ UNCHANGED <<input, target_folder, pc, stdout>>

\* the loop is exhausted: if tracks: print the summary
LoopEnd ==
    /\ pc = "parsed"
    /\ tracks # <<>>
    /\ idx = Len(tracks)
    /\ stdout' = Append(stdout, Msg("deelroutes zijn succesvol gesplitst en opgeslagen", Len(tracks)))
    /\ pc' = "waypoints"
    /\ UNCHANGED <<input, target_folder, root, idx, writes>>

\* write_all_waypoints with waypoints present
WriteWaypoints ==
    /\ pc = "waypoints"
    /\ wpts # <<>>
    /\ writes' = Append(writes, [path |-> AllWaypointsGpx, doc |-> new_gpx_root(wpts)])
    /\ stdout' = Append(stdout, Msg("waypoints opgeslagen", Len(wpts)))
    /\ pc' = "done"
    /\ UNCHANGED <<input, target_folder, root, idx>>

\* write_all_waypoints with no waypoint: print and return
NoWaypoints ==
    /\ pc = "waypoints"
    /\ wpts = <<>>
    /\ stdout' = Append(stdout, Msg("Geen <wpt> waypoints gevonden; All-Waypoints.gpx niet aangemaakt.", 0))
    /\ pc' = "done"
    /\ UNCHANGED <<input, target_folder, root, idx, writes>>

\* the files of target_folder: the last write to a path wins
Paths == {writes[i].path : i \in 1..Len(writes)}

LastWrite(path) ==
    CHOOSE i \in 1..Len(writes) :
        /\ writes[i].path = path
        /\ \A j \in (i + 1)..Len(writes) : writes[j].path # path

FileContent(path) == writes[LastWrite(path)].doc

IdleGen ==
    /\ n = 0 /\ colors = <<>> /\ hue_deg = 0 /\ accepted = <<>>
    /\ gpc = "idle" /\ calls = 0 /\ first = <<>>

IdleSplit ==
    /\ input = [kind |-> "ok", doc |-> NoTree] /\ target_folder = "absent"
    /\ root = NoTree /\ idx = 0 /\ pc = "idle" /\ writes = <<>> /\ stdout = <<>>

IdleAnnot == a_src = NoTree /\ a_idx = 0 /\ a_track = NoTree /\ a_count = 0

Init ==
    /\ input \in Inputs
    /\ target_folder = "absent"
    /\ root = NoTree
    /\ idx = 0
    /\ pc = "start"
    /\ writes = <<>>
    /\ stdout = <<>>
    /\ IdleGen
    /\ IdleAnnot

Next ==
    \/ (Parse /\ UNCHANGED <<gvars, avars>>)
    \/ (ParseFailed /\ UNCHANGED <<gvars, avars>>)
    \/ (ReadFailed /\ UNCHANGED <<gvars, avars>>)
    \/ (NoTracks /\ UNCHANGED <<gvars, avars>>)
    \/ (ProcessTrack /\ UNCHANGED <<gvars, avars>>)
    \/ (LoopEnd /\ UNCHANGED <<gvars, avars>>)
    \/ (WriteWaypoints /\ UNCHANGED <<gvars, avars>>)
    \/ (NoWaypoints /\ UNCHANGED <<gvars, avars>>)

Spec == Init /\ [][Next]_vars

\* ---------------------------------------- generate_safe_colors, step by step
\* one iteration of while len(colors) < n
GenStep ==
    /\ gpc = "loop"
    /\ Len(colors) < n
    /\ colors' = LoopBody(colors, hue_deg, n)[1]
    /\ hue_deg' = LoopBody(colors, hue_deg, n)[2]
    /\ accepted' = IF ~banned(hue_deg, n) THEN Append(accepted, hue_deg) ELSE accepted
    /\ UNCHANGED <<n, gpc, calls, first>>

\* return colors
GenReturn ==
    /\ gpc = "loop"
    /\ Len(colors) >= n
    /\ gpc' = "done"
    /\ UNCHANGED <<n, colors, hue_deg, accepted, calls, first>>

\* a further call with the same n; first keeps what the first call returned
GenCallAgain ==
    /\ gpc = "done"
    /\ calls < MaxCalls
    /\ calls' = calls + 1
    /\ first' = IF calls = 1 THEN colors ELSE first
    /\ colors' = <<>>
    /\ hue_deg' = 0
    /\ accepted' = <<>>
    /\ gpc' = "loop"
    /\ UNCHANGED n

InitGen ==
    /\ n \in 1..MaxN
    /\ colors = <<>>
    /\ hue_deg = 0
    /\ accepted = <<>>
    /\ gpc = "loop"
    /\ calls = 1
    /\ first = <<>>
    /\ IdleSplit
    /\ IdleAnnot

NextGen ==
    \/ (GenStep /\ UNCHANGED <<svars, avars>>)
    \/ (GenReturn /\ UNCHANGED <<svars, avars>>)
    \/ (GenCallAgain /\ UNCHANGED <<svars, avars>>)

SpecGen == InitGen /\ [][NextGen]_vars

\* the loop is sequential code: it runs as long as it can
SpecGenLive == SpecGen /\ WF_vars(NextGen)

\* ------------------------------------- the annotation steps, applied again
\* the three annotation calls of the loop body on the same track element
Annotate ==
    /\ a_count < MaxApply
    /\ a_track' = annotate(a_track, a_idx)
    /\ a_count' = a_count + 1
    /\ UNCHANGED <<a_src, a_idx>>

InitAnnot ==
    /\ a_src \in {TrackPool[i] : i \in 1..Len(TrackPool)}
    /\ a_idx \in 1..MaxTracks
    /\ a_track = a_src
    /\ a_count = 0
    /\ IdleGen
    /\ IdleSplit

NextAnnot == Annotate /\ UNCHANGED <<gvars, svars>>

SpecAnnot == InitAnnot /\ [][NextAnnot]_vars

\* ================================================================= claims
Ran == pc \in {"parsed", "waypoints", "done"}

\* the track element inside the k-th file written by the loop
Written(k) == writes[k].doc.kids[1]

\* the k-th track of the input document as it was parsed
Original(k) == input.doc.kids[FindAllPos(input.doc, TRK)[k]]

InBand(h, k) ==
    \/ (50 * k <= h /\ h <= 70 * k)
    \/ (100 * k <= h /\ h <= 140 * k)
    \/ (180 * k <= h /\ h <= 210 * k)

\* the points of a track whose lat and lon both parse
ValidPoints(t) ==
    SelectSeq(FindAllDesc(t, TRKPT),
              LAMBDA pt : IsFloat(Get(pt, "lat")) /\ IsFloat(Get(pt, "lon")))

Lats(t) == [i \in 1..Len(ValidPoints(t)) |-> FloatOf(Get(ValidPoints(t)[i], "lat"))]

Lons(t) == [i \in 1..Len(ValidPoints(t)) |-> FloatOf(Get(ValidPoints(t)[i], "lon"))]

NumKids(t, tag) == Len(FindAllPos(t, tag))

StripBounds(t) == [t EXCEPT !.kids = SelectSeq(@, LAMBDA e : e.tag # "bounds")]

C2_PaletteDistinct ==
    (gpc = "done" /\ n <= 12) =>
        \A i, j \in 1..Len(colors) : i # j => colors[i] # colors[j]

\* C3: for n in {1, 4, 8, 12} the call terminates and returns exactly n
\* entries "#RRGGBB", each made from a hue outside the bands [50,70],
\* [100,140], [180,210]; a second call with the same n returns the same.
C3_PaletteSound ==
    /\ [](n \in {1, 4, 8, 12} /\ gpc = "done" =>
            /\ Len(colors) = n
            /\ Len(accepted) = n
            /\ \A i \in 1..Len(accepted) : ~InBand(accepted[i], n)
            /\ \A i \in 1..Len(colors) : Len(colors[i]) = 7 /\ colors[i][1] = "#"
            /\ (calls >= 2 => colors = first))
    /\ [](n \in {1, 4, 8, 12} => <>(gpc = "done"))

C3_Witness ==
    /\ gpc = "done"
    /\ n = 8
    /\ calls = 2
    /\ Len(colors) = 8
    /\ first = colors
    /\ hue_deg # 0

\* C4: the track written for the track at position k carries the colour
\* palette[(k-1) mod len(palette)] in the generic display_color and in the
\* vendor DisplayColor, whatever its name, points or extensions.
C4_ColourByPosition ==
    Ran =>
        \A k \in 1..idx :
            LET t == Written(k)
                c == COLORS[((k - 1) % Len(COLORS)) + 1]
                g == FindAllDesc(t, "display_color")
                v == FindAllDesc(t, DISPLAY_COLOR)
            IN  /\ FindPos(t, "extensions") # 0
                /\ FindPos(t.kids[FindPos(t, "extensions")], "display_color") # 0
                /\ g # <<>>
                /\ v # <<>>
                /\ \A i \in 1..Len(g) : g[i].text = c
                /\ \A i \in 1..Len(v) : v[i].text = c

C4_Witness ==
    /\ pc = "done"
    /\ idx >= 9
    /\ FindAllDesc(Written(9), DISPLAY_COLOR)[1].text = COLORS[1]
    /\ FindAllDesc(Written(2), DISPLAY_COLOR)[1].text = COLORS[2]
    /\ \E k \in 1..idx : HasDesc(Original(k), DISPLAY_COLOR)
    /\ \E k \in 1..idx : HasDesc(Original(k), "display_color")

\* C5: a point whose lat or lon does not parse contributes nothing: the
\* bounds written for a track are the min/max over exactly the points whose
\* lat and lon both parse.
C5_BadPointContributesNothing ==
    Ran =>
        \A k \in 1..idx :
            ValidPoints(Original(k)) # <<>> =>
                LET b == Written(k).kids[1]
                IN  /\ b.tag = "bounds"
                    /\ FloatOf(Get(b, "minlat")) = SeqMin(Lats(Original(k)))
                    /\ FloatOf(Get(b, "minlon")) = SeqMin(Lons(Original(k)))
                    /\ FloatOf(Get(b, "maxlat")) = SeqMax(Lats(Original(k)))
                    /\ FloatOf(Get(b, "maxlon")) = SeqMax(Lons(Original(k)))

\* C6: the written track has a bounds element iff the track has a point
\* with numeric lat and lon; it is then the first child and has
\* minlat <= maxlat and minlon <= maxlon.
C6_BoundsFirst ==
    Ran =>
        \A k \in 1..idx :
            LET t == Written(k)
            IN  /\ (NumKids(t, "bounds") > 0) <=> (ValidPoints(Original(k)) # <<>>)
                /\ NumKids(t, "bounds") > 0 =>
                      /\ t.kids[1].tag = "bounds"
                      /\ IsFloat(Get(t.kids[1], "minlat"))
                      /\ IsFloat(Get(t.kids[1], "maxlon"))
                      /\ FloatOf(Get(t.kids[1], "minlat")) <= FloatOf(Get(t.kids[1], "maxlat"))
                      /\ FloatOf(Get(t.kids[1], "minlon")) <= FloatOf(Get(t.kids[1], "maxlon"))

C6_Witness ==
    /\ pc = "done"
    /\ \E k \in 1..idx :
          /\ Written(k).kids[1].tag = "bounds"
          /\ Len(Written(k).kids) >= 5
          /\ FloatOf(Get(Written(k).kids[1], "minlat")) < FloatOf(Get(Written(k).kids[1], "maxlat"))
    /\ \E k \in 1..idx :
          /\ NumKids(Written(k), "bounds") = 0
          /\ FindAllDesc(Original(k), TRKPT) # <<>>

\* C7: when parsing fails the cause is reported and the run ends failed;
\* no track file and no All-Waypoints.gpx is ever written.
C7_ParseFailureWritesNothing ==
    input.kind # "ok" =>
        /\ writes = <<>>
        /\ pc # "start" =>
              /\ pc = "failed"
              /\ target_folder = "created"
              /\ Len(stdout) = 1
              /\ stdout[1].msg = (IF input.kind = "malformed"
                                  THEN "Fout: Het GPX-bestand kon niet worden geparsed"
                                  ELSE "Onverwachte fout bij het lezen van het GPX-bestand")

C7_Witness ==
    /\ pc = "failed"
    /\ input.kind = "malformed"
    /\ FindAllPos(input.doc, TRK) # <<>>
    /\ FindAllPos(input.doc, WPT) # <<>>
    /\ writes = <<>>

\* C8: after a run on T tracks the directory holds exactly T files other
\* than All-Waypoints.gpx, one per track, each holding its own track.
C8_OneFilePerTrack ==
    pc = "done" =>
        /\ Cardinality(Paths \ {AllWaypointsGpx}) = Len(tracks)
        /\ \A k \in 1..Len(tracks) :
              FileContent(safe_name(Original(k), k) \o DotGpx).kids = <<root.kids[tracks[k]]>>

\* C9: after a run All-Waypoints.gpx exists iff the input has a top-level
\* waypoint; it is then the last file written and holds exactly the
\* top-level waypoints in document order.
C9_WaypointsFile ==
    pc = "done" =>
        /\ (AllWaypointsGpx \in Paths) <=> (FindAll(input.doc, WPT) # <<>>)
        /\ AllWaypointsGpx \in Paths =>
              /\ LastWrite(AllWaypointsGpx) = Len(writes)
              /\ \A i \in 1..(Len(writes) - 1) : writes[i].path # AllWaypointsGpx
              /\ FileContent(AllWaypointsGpx).kids = FindAll(input.doc, WPT)

\* C10 (as stated): annotating a track a second time with the same ordinal
\* leaves the tree as the first annotation left it.
C10_Idempotent == [][a_count >= 1 => a_track' = a_track]_vars

\* C10 (amended): the two colour steps are idempotent, a further annotation
\* leaves everything but bounds as it was, with one display_color and one
\* vendor DisplayColor; add_bounds is not: each annotation of a track with a
\* valid point inserts one more bounds element as first child.
C10_ColourIdempotentBoundsNot ==
    /\ [](a_count >= 1 =>
            /\ Len(FindAllDesc(a_track, "display_color")) = 1
            /\ Len(FindAllDesc(a_track, DISPLAY_COLOR)) = 1
            /\ NumKids(a_track, "extensions") = 1
            /\ NumKids(a_track, "bounds") =
                  (IF ValidPoints(a_src) # <<>> THEN a_count ELSE 0)
            /\ (NumKids(a_track, "bounds") > 0 => a_track.kids[1].tag = "bounds"))
    /\ [][a_count >= 1 => StripBounds(a_track') = StripBounds(a_track)]_vars

C10_Witness ==
    /\ a_count = 2
    /\ NumKids(a_track, "bounds") = 2
    /\ a_track.kids[1] = a_track.kids[2]
    /\ Len(FindAllDesc(a_track, DISPLAY_COLOR)) = 1

====
